---- MODULE Spec2Model ----
(***************************************************************************)
(* Model of personal-assist.py: the free-text command resolver             *)
(* (suggest_command over similar), the guarded input loop                  *)
(* (handle_user_input.wrapper) and the session loop (main) with its        *)
(* address book and notebook.                                              *)
(*                                                                         *)
(* Text.  A Python str is modelled as the sequence of its Unicode code     *)
(* points (for instance "exit" is <<101,120,105,116>>), so that the        *)
(* character-level functions (lower, SequenceMatcher, the validators'      *)
(* regular expressions, split) are computed and not assumed.  The names    *)
(* of the canonical commands are Cyrillic in the source; module strings    *)
(* are ASCII, so each command is named by its transliteration and the      *)
(* original is given in the comment beside it.                             *)
(***************************************************************************)
EXTENDS Integers, Sequences, FiniteSets, TLC

(***************************************************************************)
(* Bounds of the model                                                     *)
(***************************************************************************)
\* lines the user may type at one guarded prompt before walking away
MaxAttempts == 3
\* length of the generated texts handed to the resolver
MaxTextLen == 2

(***************************************************************************)
(* str.lower                                                               *)
(***************************************************************************)
\* str.lower on one code point, for the scripts that occur in the catalog
\* and in the inputs: Latin A-Z, Cyrillic U+0400-U+042F and U+0490.
lower_char(c) ==
  IF c >= 65 /\ c <= 90 THEN c + 32
  ELSE IF c >= 1040 /\ c <= 1071 THEN c + 32
  ELSE IF c >= 1024 /\ c <= 1039 THEN c + 80
  ELSE IF c = 1168 THEN 1169
  ELSE c

lower(s) == [i \in 1..Len(s) |-> lower_char(s[i])]

(***************************************************************************)
(* similar(a, b) = SequenceMatcher(None, a, b).ratio()                     *)
(* b is always a catalog phrase (shorter than 200 characters), so the      *)
(* autojunk heuristic never applies and no element is junk.                *)
(***************************************************************************)
\* length of the common run a[i..], b[j..] inside the windows [..ahi], [..bhi]
RECURSIVE RunLen(_, _, _, _, _, _)
RunLen(a, b, i, j, ahi, bhi) ==
  IF i > ahi \/ j > bhi THEN 0
  ELSE IF a[i] # b[j] THEN 0
  ELSE 1 + RunLen(a, b, i + 1, j + 1, ahi, bhi)

\* SequenceMatcher.find_longest_match: <<i, j, k>> with a[i..i+k-1] = b[j..j+k-1],
\* k maximal, then i minimal, then j minimal; k = 0 when nothing matches.
find_longest_match(a, b, alo, ahi, blo, bhi) ==
  LET starts == {p \in (alo..ahi) \X (blo..bhi) : a[p[1]] = b[p[2]]}
      runs == {<<p[1], p[2], RunLen(a, b, p[1], p[2], ahi, bhi)>> : p \in starts}
  IN  IF runs = {} THEN <<alo, blo, 0>>
      ELSE CHOOSE m \in runs :
             \A r \in runs :
               \/ r[3] < m[3]
               \/ r[3] = m[3] /\ m[1] < r[1]
               \/ r[3] = m[3] /\ m[1] = r[1] /\ m[2] <= r[2]

\* SequenceMatcher.get_matching_blocks, summed: the total size of the blocks
\* found by splitting around the longest match and recursing left and right.
RECURSIVE matches(_, _, _, _, _, _)
matches(a, b, alo, ahi, blo, bhi) ==
  IF alo > ahi \/ blo > bhi THEN 0
  ELSE LET m == find_longest_match(a, b, alo, ahi, blo, bhi)
       IN  IF m[3] = 0 THEN 0
           ELSE m[3] + matches(a, b, alo, m[1] - 1, blo, m[2] - 1)
                     + matches(a, b, m[1] + m[3], ahi, m[2] + m[3], bhi)

\* a variant of ratio() that would not double the matches
similar_unscaled(a, b) ==
  IF Len(a) + Len(b) = 0 THEN [num |-> 1, den |-> 1]
  ELSE [num |-> matches(a, b, 1, Len(a), 1, Len(b)), den |-> Len(a) + Len(b)]

\* ratio() = 2.0 * matches / (len(a) + len(b)), and 1.0 when both are empty.
\* The float is kept as the exact fraction num/den: the operands are small
\* integers, so two ratios compare as floats exactly as the fractions do.
similar(a, b) ==
  IF Len(a) + Len(b) = 0 THEN [num |-> 1, den |-> 1]
  ELSE [num |-> 2 * matches(a, b, 1, Len(a), 1, Len(b)), den |-> Len(a) + Len(b)]

\* comparison of two ratios
gt(x, y) == x.num * y.den > y.num * x.den
ge(x, y) == x.num * y.den >= y.num * x.den

(***************************************************************************)
(* suggest_command                                                         *)
(***************************************************************************)
\* the catalog `keywords` (a dict: iteration is in insertion order)
keywords ==
  << [command |-> "dodaty kontakt",   \* додати контакт
      command_list |-> <<
        <<1076,1086,1076,1072,1090,1080,32,1082,1086,1085,1090,1072,1082,1090>>,   \* додати контакт
        <<1089,1090,1074,1086,1088,1080,1090,1080,32,1082,1086,1085,1090,1072,1082,1090>>,   \* створити контакт
        <<1085,1086,1074,1080,1081,32,1082,1086,1085,1090,1072,1082,1090>>,   \* новий контакт
        <<1074,1074,1077,1089,1090,1080,32,1082,1086,1085,1090,1072,1082,1090>>,   \* ввести контакт
        <<1079,1072,1087,1080,1089,1072,1090,1080,32,1082,1086,1085,1090,1072,1082,1090>>,   \* записати контакт
        <<1076,1086,1073,1072,1074,1080,1090,1080,32,1082,1086,1085,1090,1072,1082,1090>>,   \* добавити контакт
        <<1076,1086,1076,1072,1090,1080,32,1082,1086,1088,1080,1089,1090,1091,1074,1072,1095,1072>>,   \* додати користувача
        <<1076,1086,1073,1072,1074,1080,1090,1080,32,1082,1086,1088,1080,1089,1090,1091,1074,1072,1095,1072>>,   \* добавити користувача
        <<1074,1074,1077,1089,1090,1080,32,1082,1086,1088,1080,1089,1090,1091,1074,1072,1095,1072>>,   \* ввести користувача
        <<1085,1086,1074,1080,1081,32,1082,1086,1088,1080,1089,1090,1091,1074,1072,1095>>,   \* новий користувач
        <<1074,1074,1077,1079,1090,1080,32,1082,1086,1085,1090,1072,1082,1090>>,   \* ввезти контакт
        <<1074,1074,1077,1076,32,1082,1086,1085,1090,1072,1082,1090>>,   \* введ контакт
        <<1082,1086,1085,1090,1072,1082,1090,32,1085,1086,1074,1080,1081>>,   \* контакт новий
        <<1082,1086,1088,1080,1089,1090,32,1085,1086,1074,1080,1081>>,   \* корист новий
        <<1082,1086,1088,1080,1089,1090,1091,1074,1072,1095,1072,32,1085,1086,1074,1080,1081>>,   \* користувача новий
        <<1082,1086,1085,1090,1072,1082,1090,32,1082,1086,1088,1080,1089,1090,1091,1074,1072,1095,1072>>,   \* контакт користувача
        <<1085,1086,1074,1080,1081,32,1079,1072,1087,1080,1089,32,1082,1086,1088,1080,1089,1090,1091,1074,1072,1095,1072>>   \* новий запис користувача
      >>],
     [command |-> "znaity kontakt",   \* знайти контакт
      command_list |-> <<
        <<1079,1085,1072,1081,1090,1080,32,1082,1086,1085,1090,1072,1082,1090>>,   \* знайти контакт
        <<1087,1086,1096,1091,1082,32,1082,1086,1085,1090,1072,1082,1090>>,   \* пошук контакт
        <<1096,1091,1082,1072,1090,1080,32,1082,1086,1085,1090,1072,1082,1090>>,   \* шукати контакт
        <<1074,1110,1076,1096,1091,1082,1072,1090,1080,32,1082,1086,1085,1090,1072,1082,1090>>,   \* відшукати контакт
        <<1079,1085,1072,1081,1090,1080,32,1082,1086,1088,1080,1089,1090,1091,1074,1072,1095,1072>>,   \* знайти користувача
        <<1087,1086,1096,1091,1082,32,1082,1086,1088,1080,1089,1090,1091,1074,1072,1095,1072>>,   \* пошук користувача
        <<1096,1091,1082,1072,1090,1080,32,1082,1086,1088,1080,1089,1090,1091,1074,1072,1095,1072>>,   \* шукати користувача
        <<1074,1110,1076,1096,1091,1082,1072,1090,1080,32,1082,1086,1088,1080,1089,1090,1091,1074,1072,1095,1072>>,   \* відшукати користувача
        <<1087,1086,1096,1091,1082,1072,1090,1080,32,1082,1086,1085,1090,1072,1082,1090>>,   \* пошукати контакт
        <<1087,1086,1096,1091,1082,1072,1090,1080,32,1082,1086,1088,1080,1089,1090,1091,1074,1072,1095,1072>>,   \* пошукати користувача
        <<1087,1086,1096,1091,1082,32,1082,1086,1085,1090,1072,1082,1090,1110,1074>>,   \* пошук контактів
        <<1074,1110,1076,1096,1091,1082,1072,1090,1080,32,1082,1086,1085,1090,1072,1082,1090,1080>>,   \* відшукати контакти
        <<1087,1086,1096,1091,1082,32,1082,1086,1088,1080,1089,1090,1091,1074,1072,1095,1110,1074>>,   \* пошук користувачів
        <<1074,1110,1076,1096,1091,1082,1072,1090,1080,32,1082,1086,1088,1080,1089,1090,1091,1074,1072,1095,1110,1074>>   \* відшукати користувачів
      >>],
     [command |-> "vydalyty kontakt",   \* видалити контакт
      command_list |-> <<
        <<1074,1080,1076,1072,1083,1080,1090,1080,32,1082,1086,1085,1090,1072,1082,1090>>,   \* видалити контакт
        <<1079,1085,1080,1097,1080,1090,1080,32,1082,1086,1085,1090,1072,1082,1090>>,   \* знищити контакт
        <<1089,1090,1077,1088,1090,1080,32,1082,1086,1085,1090,1072,1082,1090>>,   \* стерти контакт
        <<1074,1080,1083,1091,1095,1080,1090,1080,32,1082,1086,1085,1090,1072,1082,1090>>,   \* вилучити контакт
        <<1074,1080,1076,1072,1083,1080,1090,1080,32,1082,1086,1088,1080,1089,1090,1091,1074,1072,1095,1072>>,   \* видалити користувача
        <<1079,1085,1080,1097,1080,1090,1080,32,1082,1086,1088,1080,1089,1090,1091,1074,1072,1095,1072>>,   \* знищити користувача
        <<1089,1090,1077,1088,1090,1080,32,1082,1086,1088,1080,1089,1090,1091,1074,1072,1095,1072>>,   \* стерти користувача
        <<1074,1080,1083,1091,1095,1080,1090,1080,32,1082,1086,1088,1080,1089,1090,1091,1074,1072,1095,1072>>,   \* вилучити користувача
        <<1074,1080,1076,1072,1083,1080,1090,1080,32,1079,1072,1087,1080,1089>>,   \* видалити запис
        <<1089,1090,1077,1088,1090,1080,32,1079,1072,1087,1080,1089>>,   \* стерти запис
        <<1074,1080,1076,1072,1083,1077,1085,1085,1103,32,1082,1086,1085,1090,1072,1082,1090,1091>>,   \* видалення контакту
        <<1089,1090,1077,1088,1090,1080,32,1082,1086,1085,1090,1072,1082,1090,1080>>,   \* стерти контакти
        <<1074,1080,1076,1072,1083,1077,1085,1085,1103,32,1079,1072,1087,1080,1089,1110,1074>>,   \* видалення записів
        <<1089,1090,1077,1088,1090,1080,32,1079,1072,1087,1080,1089,1080>>,   \* стерти записи
        <<1074,1080,1083,1091,1095,1080,1090,1080,32,1082,1086,1085,1090,1072,1082,1090,1080>>,   \* вилучити контакти
        <<1079,1085,1080,1097,1080,1090,1080,32,1079,1072,1087,1080,1089,1080>>   \* знищити записи
      >>],
     [command |-> "redaguvaty kontakt",   \* редагувати контакт
      command_list |-> <<
        <<1088,1077,1076,1072,1075,1091,1074,1072,1090,1080,32,1082,1086,1085,1090,1072,1082,1090>>,   \* редагувати контакт
        <<1079,1084,1110,1085,1080,1090,1080,32,1082,1086,1085,1090,1072,1082,1090>>,   \* змінити контакт
        <<1088,1077,1076,1072,1075,1091,1074,1072,1085,1085,1103,32,1082,1086,1085,1090,1072,1082,1090,1091>>,   \* редагування контакту
        <<1088,1077,1076,1072,1082,1090,1080,1088,1086,1074,1072,1090,1100,32,1082,1086,1085,1090,1072,1082,1090>>,   \* редактировать контакт
        <<1079,1084,1110,1085,1080,1090,1080,32,1079,1072,1087,1080,1089>>,   \* змінити запис
        <<1079,1084,1110,1085,1080,1090,1080,32,1110,1084,39,1103>>,   \* змінити ім'я
        <<1079,1084,1110,1085,1080,1090,1080,32,1085,1086,1084,1077,1088>>,   \* змінити номер
        <<1079,1084,1110,1085,1080,1090,1080,32,101,109,97,105,108>>,   \* змінити email
        <<1079,1084,1110,1085,1080,1090,1080,32,1072,1076,1088,1077,1089,1091>>,   \* змінити адресу
        <<1088,1077,1076,1072,1075,1091,1074,1072,1090,1080,32,1085,1086,1084,1077,1088>>,   \* редагувати номер
        <<1088,1077,1076,1072,1075,1091,1074,1072,1090,1080,32,1110,1084,39,1103>>,   \* редагувати ім'я
        <<1088,1077,1076,1072,1075,1091,1074,1072,1090,1080,32,101,109,97,105,108>>,   \* редагувати email
        <<1088,1077,1076,1072,1075,1091,1074,1072,1090,1080,32,1072,1076,1088,1077,1089,1091>>,   \* редагувати адресу
        <<1088,1077,1076,1072,1082,1090,1080,1088,1086,1074,1072,1085,1080,1077,32,1082,1086,1085,1090,1072,1082,1090,1072>>   \* редактирование контакта
      >>],
     [command |-> "redaguvaty notatku",   \* редагувати нотатку
      command_list |-> <<
        <<1088,1077,1076,1072,1075,1091,1074,1072,1090,1080,32,1085,1086,1090,1072,1090,1082,1091>>,   \* редагувати нотатку
        <<1079,1084,1110,1085,1080,1090,1080,32,1085,1086,1090,1072,1090,1082,1091>>,   \* змінити нотатку
        <<1088,1077,1076,1072,1075,1091,1074,1072,1085,1085,1103,32,1085,1086,1090,1072,1090,1082,1080>>,   \* редагування нотатки
        <<1088,1077,1076,1072,1082,1090,1080,1088,1086,1074,1072,1090,1100,32,1085,1086,1090,1072,1090,1082,1091>>,   \* редактировать нотатку
        <<1079,1084,1110,1085,1080,1090,1080,32,1090,1077,1082,1089,1090>>,   \* змінити текст
        <<1079,1084,1110,1085,1080,1090,1080,32,1090,1077,1075,1080>>,   \* змінити теги
        <<1088,1077,1076,1072,1075,1091,1074,1072,1090,1080,32,1090,1077,1082,1089,1090>>,   \* редагувати текст
        <<1088,1077,1076,1072,1075,1091,1074,1072,1090,1080,32,1090,1077,1075,1080>>,   \* редагувати теги
        <<1088,1077,1076,1072,1075,1091,1074,1072,1085,1085,1103,32,1090,1077,1082,1089,1090,1091>>,   \* редагування тексту
        <<1088,1077,1076,1072,1075,1091,1074,1072,1085,1085,1103,32,1090,1077,1075,1110,1074>>,   \* редагування тегів
        <<1079,1084,1110,1085,1080,1090,1080,32,1079,1072,1087,1080,1089,32,1085,1086,1090,1072,1090,1082,1080>>   \* змінити запис нотатки
      >>],
     [command |-> "dni narodzhennia",   \* дні народження
      command_list |-> <<
        <<1076,1085,1110,32,1085,1072,1088,1086,1076,1078,1077,1085,1085,1103>>,   \* дні народження
        <<1087,1086,1082,1072,1079,1072,1090,1080,32,1076,1085,1110,32,1085,1072,1088,1086,1076,1078,1077,1085,1085,1103>>,   \* показати дні народження
        <<1079,1085,1072,1081,1090,1080,32,1076,1085,1110,32,1085,1072,1088,1086,1076,1078,1077,1085,1085,1103>>,   \* знайти дні народження
        <<1087,1086,1096,1091,1082,32,1076,1085,1110,1074,32,1085,1072,1088,1086,1076,1078,1077,1085,1085,1103>>,   \* пошук днів народження
        <<1085,1072,1081,1073,1083,1080,1078,1095,1110,32,1076,1085,1110,32,1085,1072,1088,1086,1076,1078,1077,1085,1085,1103>>,   \* найближчі дні народження
        <<1085,1072,1089,1090,1091,1087,1085,1110,32,1076,1085,1110,32,1085,1072,1088,1086,1076,1078,1077,1085,1085,1103>>,   \* наступні дні народження
        <<1074,1080,1074,1077,1089,1090,1080,32,1076,1085,1110,32,1085,1072,1088,1086,1076,1078,1077,1085,1085,1103>>,   \* вивести дні народження
        <<1085,1072,1088,1086,1076,1078,1077,1085,1085,1103,32,1082,1086,1085,1090,1072,1082,1090,1091>>,   \* народження контакту
        <<1085,1072,1081,1073,1083,1080,1078,1095,1110,32,1076,1072,1090,1080,32,1085,1072,1088,1086,1076,1078,1077,1085,1085,1103>>,   \* найближчі дати народження
        <<1085,1072,1081,1073,1083,1080,1078,1095,1110,32,1089,1074,1103,1090,1072>>,   \* найближчі свята
        <<1076,1085,1110,32,1085,1072,1088,1086,1076,1078,1077,1085,1085,1103,32,1082,1086,1085,1090,1072,1082,1090,1091>>,   \* дні народження контакту
        <<1085,1072,1081,1073,1083,1080,1078,1095,1110,32,1087,1086,1076,1110,1111>>,   \* найближчі події
        <<1085,1072,1081,1073,1083,1080,1078,1095,1110,32,1089,1074,1103,1090,1072,32,1082,1086,1085,1090,1072,1082,1090,1091>>,   \* найближчі свята контакту
        <<1085,1072,1089,1090,1091,1087,1085,1110,32,1089,1074,1103,1090,1072>>,   \* наступні свята
        <<1074,1080,1074,1077,1089,1090,1080,32,1076,1085,1110,32,1085,1072,1088,1086,1076,1078,1077,1085,1085,1103,32,1082,1086,1085,1090,1072,1082,1090,1091>>   \* вивести дні народження контакту
      >>],
     [command |-> "dodaty notatku",   \* додати нотатку
      command_list |-> <<
        <<1076,1086,1076,1072,1090,1080,32,1085,1086,1090,1072,1090,1082,1091>>,   \* додати нотатку
        <<1089,1090,1074,1086,1088,1080,1090,1080,32,1085,1086,1090,1072,1090,1082,1091>>,   \* створити нотатку
        <<1085,1086,1074,1072,32,1085,1086,1090,1072,1090,1082,1072>>,   \* нова нотатка
        <<1074,1074,1077,1089,1090,1080,32,1085,1086,1090,1072,1090,1082,1091>>,   \* ввести нотатку
        <<1079,1072,1087,1080,1089,1072,1090,1080,32,1085,1086,1090,1072,1090,1082,1091>>,   \* записати нотатку
        <<1076,1086,1073,1072,1074,1080,1090,1080,32,1085,1086,1090,1072,1090,1082,1091>>,   \* добавити нотатку
        <<1085,1086,1074,1080,1081,32,1079,1072,1087,1080,1089>>,   \* новий запис
        <<1074,1074,1077,1089,1090,1080,32,1079,1072,1087,1080,1089>>,   \* ввести запис
        <<1079,1072,1087,1080,1089,1072,1090,1080,32,1079,1072,1087,1080,1089>>,   \* записати запис
        <<1085,1086,1074,1080,1081,32,1090,1077,1082,1089,1090>>,   \* новий текст
        <<1089,1090,1074,1086,1088,1080,1090,1080,32,1079,1072,1087,1080,1089,32,1085,1086,1090,1072,1090,1082,1080>>,   \* створити запис нотатки
        <<1076,1086,1073,1072,1074,1080,1090,1080,32,1085,1086,1074,1080,1081,32,1079,1072,1087,1080,1089>>,   \* добавити новий запис
        <<1085,1086,1074,1080,1081,32,1090,1077,1082,1089,1090,32,1085,1086,1090,1072,1090,1082,1080>>   \* новий текст нотатки
      >>],
     [command |-> "znaity notatku",   \* знайти нотатку
      command_list |-> <<
        <<1079,1085,1072,1081,1090,1080,32,1085,1086,1090,1072,1090,1082,1091>>,   \* знайти нотатку
        <<1087,1086,1096,1091,1082,32,1085,1086,1090,1072,1090,1082,1080>>,   \* пошук нотатки
        <<1096,1091,1082,1072,1090,1080,32,1085,1086,1090,1072,1090,1082,1091>>,   \* шукати нотатку
        <<1074,1110,1076,1096,1091,1082,1072,1090,1080,32,1085,1086,1090,1072,1090,1082,1091>>,   \* відшукати нотатку
        <<1079,1085,1072,1081,1090,1080,32,1079,1072,1087,1080,1089>>,   \* знайти запис
        <<1087,1086,1096,1091,1082,32,1079,1072,1087,1080,1089,1091>>,   \* пошук запису
        <<1096,1091,1082,1072,1090,1080,32,1079,1072,1087,1080,1089>>,   \* шукати запис
        <<1074,1110,1076,1096,1091,1082,1072,1090,1080,32,1079,1072,1087,1080,1089>>,   \* відшукати запис
        <<1087,1086,1096,1091,1082,1072,1090,1080,32,1085,1086,1090,1072,1090,1082,1091>>,   \* пошукати нотатку
        <<1087,1086,1096,1091,1082,1072,1090,1080,32,1079,1072,1087,1080,1089>>,   \* пошукати запис
        <<1079,1085,1072,1081,1090,1080,32,1090,1077,1082,1089,1090,32,1085,1086,1090,1072,1090,1082,1080>>,   \* знайти текст нотатки
        <<1074,1110,1076,1096,1091,1082,1072,1090,1080,32,1090,1077,1082,1089,1090>>,   \* відшукати текст
        <<1087,1086,1096,1091,1082,32,1090,1077,1082,1089,1090,1091>>,   \* пошук тексту
        <<1087,1086,1096,1091,1082,32,1079,1072,1087,1080,1089,1110,1074>>,   \* пошук записів
        <<1079,1085,1072,1081,1090,1080,32,1079,1072,1087,1080,1089,1080,32,1085,1086,1090,1072,1090,1086,1082>>   \* знайти записи нотаток
      >>],
     [command |-> "vydalyty notatku",   \* видалити нотатку
      command_list |-> <<
        <<1074,1080,1076,1072,1083,1080,1090,1080,32,1085,1086,1090,1072,1090,1082,1091>>,   \* видалити нотатку
        <<1079,1085,1080,1097,1080,1090,1080,32,1085,1086,1090,1072,1090,1082,1091>>,   \* знищити нотатку
        <<1089,1090,1077,1088,1090,1080,32,1085,1086,1090,1072,1090,1082,1091>>,   \* стерти нотатку
        <<1074,1080,1083,1091,1095,1080,1090,1080,32,1085,1086,1090,1072,1090,1082,1091>>,   \* вилучити нотатку
        <<1074,1080,1076,1072,1083,1080,1090,1080,32,1079,1072,1087,1080,1089>>,   \* видалити запис
        <<1079,1085,1080,1097,1080,1090,1080,32,1079,1072,1087,1080,1089>>,   \* знищити запис
        <<1089,1090,1077,1088,1090,1080,32,1079,1072,1087,1080,1089>>,   \* стерти запис
        <<1074,1080,1083,1091,1095,1080,1090,1080,32,1079,1072,1087,1080,1089>>,   \* вилучити запис
        <<1089,1090,1077,1088,1090,1080,32,1090,1077,1082,1089,1090>>,   \* стерти текст
        <<1074,1080,1076,1072,1083,1080,1090,1080,32,1090,1077,1082,1089,1090>>,   \* видалити текст
        <<1074,1080,1076,1072,1083,1080,1090,1080,32,1090,1077,1082,1089,1090,32,1085,1086,1090,1072,1090,1082,1080>>,   \* видалити текст нотатки
        <<1089,1090,1077,1088,1090,1080,32,1090,1077,1082,1089,1090,32,1085,1086,1090,1072,1090,1082,1080>>,   \* стерти текст нотатки
        <<1074,1080,1083,1091,1095,1080,1090,1080,32,1079,1072,1087,1080,1089,32,1085,1086,1090,1072,1090,1082,1080>>   \* вилучити запис нотатки
      >>],
     [command |-> "vyity",   \* вийти
      command_list |-> <<
        <<1074,1080,1081,1090,1080>>,   \* вийти
        <<1079,1072,1082,1088,1080,1090,1080>>,   \* закрити
        <<1079,1072,1074,1077,1088,1096,1080,1090,1080>>,   \* завершити
        <<1087,1088,1080,1087,1080,1085,1080,1090,1080>>,   \* припинити
        <<1074,1080,1093,1110,1076>>,   \* вихід
        <<1079,1072,1082,1088,1080,1090,1080,32,1087,1088,1086,1075,1088,1072,1084,1091>>,   \* закрити програму
        <<1074,1080,1093,1086,1076,1080,1090,1080>>,   \* виходити
        <<101,120,105,116>>,   \* exit
        <<99,108,111,115,101>>,   \* close
        <<1079,1072,1074,1077,1088,1096,1077,1085,1085,1103>>,   \* завершення
        <<1074,1080,1093,1110,1076,32,1079,32,1087,1088,1086,1075,1088,1072,1084,1080>>,   \* вихід з програми
        <<1087,1088,1080,1087,1080,1085,1080,1090,1080,32,1088,1086,1073,1086,1090,1091>>,   \* припинити роботу
        <<1079,1072,1074,1077,1088,1096,1080,1090,1080,32,1088,1086,1073,1086,1090,1091>>,   \* завершити роботу
        <<1074,1080,1081,1090,1080,32,1079,32,1087,1088,1086,1075,1088,1072,1084,1080>>,   \* вийти з програми
        <<1079,1072,1082,1088,1080,1090,1080,32,1074,1089,1077>>   \* закрити все
      >>],
     [command |-> "vidmina",   \* відміна
      command_list |-> <<
        <<1074,1110,1076,1084,1110,1085,1072>>,   \* відміна
        <<1086,1090,1084,1077,1085,1072>>,   \* отмена
        <<99,97,110,99,101,108>>,   \* cancel
        <<1074,1110,1076,1084,1110,1085,1080,1090,1080>>,   \* відмінити
        <<1079,1091,1087,1080,1085,1080,1090,1080>>,   \* зупинити
        <<1089,1082,1072,1089,1091,1074,1072,1090,1080>>,   \* скасувати
        <<1089,1082,1072,1089,1091,1074,1072,1085,1085,1103>>,   \* скасування
        <<1079,1091,1087,1080,1085,1082,1072>>,   \* зупинка
        <<1087,1077,1088,1077,1088,1074,1072,1090,1080>>,   \* перервати
        <<1089,1082,1072,1089,1091,1074,1072,1090,1080,32,1086,1087,1077,1088,1072,1094,1110,1102>>,   \* скасувати операцію
        <<1074,1110,1076,1084,1110,1085,1080,1090,1080,32,1086,1087,1077,1088,1072,1094,1110,1102>>,   \* відмінити операцію
        <<1089,1082,1072,1089,1091,1074,1072,1085,1085,1103,32,1076,1110,1111>>,   \* скасування дії
        <<1074,1110,1076,1084,1110,1085,1072,32,1076,1110,1111>>,   \* відміна дії
        <<1089,1082,1072,1089,1091,1074,1072,1090,1080,32,1074,1074,1077,1076,1077,1085,1085,1103>>,   \* скасувати введення
        <<1074,1110,1076,1084,1110,1085,1080,1090,1080,32,1074,1074,1077,1076,1077,1085,1085,1103>>,   \* відмінити введення
        <<1079,1091,1087,1080,1085,1080,1090,1080,32,1074,1074,1077,1076,1077,1085,1085,1103>>,   \* зупинити введення
        <<1087,1077,1088,1077,1088,1074,1072,1090,1080,32,1074,1074,1077,1076,1077,1085,1085,1103>>   \* перервати введення
      >>],
     [command |-> "pokazaty vsi kontakty",   \* показати всі контакти
      command_list |-> <<
        <<1087,1086,1082,1072,1079,1072,1090,1080,32,1074,1089,1110,32,1082,1086,1085,1090,1072,1082,1090,1080>>,   \* показати всі контакти
        <<1074,1089,1110,32,1082,1086,1085,1090,1072,1082,1090,1080>>,   \* всі контакти
        <<1087,1077,1088,1077,1075,1083,1103,1085,1091,1090,1080,32,1074,1089,1110,32,1082,1086,1085,1090,1072,1082,1090,1080>>,   \* переглянути всі контакти
        <<1087,1077,1088,1077,1075,1083,1103,1085,1091,1090,1080,32,1082,1086,1085,1090,1072,1082,1090,1080>>,   \* переглянути контакти
        <<1074,1110,1076,1086,1073,1088,1072,1079,1080,1090,1080,32,1074,1089,1110,32,1082,1086,1085,1090,1072,1082,1090,1080>>,   \* відобразити всі контакти
        <<1087,1086,1082,1072,1079,1072,1090,1080,32,1089,1087,1080,1089,1086,1082,32,1082,1086,1085,1090,1072,1082,1090,1110,1074>>,   \* показати список контактів
        <<1074,1080,1074,1077,1089,1090,1080,32,1074,1089,1110,32,1082,1086,1085,1090,1072,1082,1090,1080>>,   \* вивести всі контакти
        <<1074,1080,1074,1077,1089,1090,1080,32,1089,1087,1080,1089,1086,1082,32,1082,1086,1085,1090,1072,1082,1090,1110,1074>>,   \* вивести список контактів
        <<1087,1086,1082,1072,1079,1072,1090,1080,32,1082,1086,1085,1090,1072,1082,1090,1080>>,   \* показати контакти
        <<1089,1087,1080,1089,1086,1082,32,1082,1086,1085,1090,1072,1082,1090,1110,1074>>   \* список контактів
      >>] >>
\* the value of best_match when nothing was matched (Python None)
NoCommand == "None"

\* the minimum similarity, 0.3 = 3/10
ThresholdNum == 3
ThresholdDen == 10
threshold == [num |-> ThresholdNum, den |-> ThresholdDen]

\* a variant of line 315 with >= in place of >
improves_ge(similarity, highest_similarity) ==
  ge(similarity, highest_similarity) /\ ge(similarity, threshold)

\* a variant of line 315 without the minimum
improves_unthresholded(similarity, highest_similarity) ==
  gt(similarity, highest_similarity)

\* line 315, the test that replaces the best match:
\*   similarity > highest_similarity and similarity >= 0.3
improves(similarity, highest_similarity) ==
  gt(similarity, highest_similarity) /\ ge(similarity, threshold)

\* the pairs (command, keyword) in the order the two nested loops visit them:
\*   for command, command_list in keywords.items(): for keyword in command_list
RECURSIVE enumerate_keywords(_)
enumerate_keywords(n) ==
  IF n = 0 THEN <<>>
  ELSE enumerate_keywords(n - 1) \o
       [k \in 1..Len(keywords[n].command_list) |->
          [command |-> keywords[n].command, keyword |-> keywords[n].command_list[k]]]

visited == enumerate_keywords(Len(keywords))

\* a variant of line 314 without user_input.lower()
iteration_case_sensitive(typed_text, n, best) ==
  LET similarity == similar(typed_text, lower(visited[n].keyword))
  IN  IF improves(similarity, best.highest_similarity)
      THEN [best_match |-> visited[n].command, highest_similarity |-> similarity]
      ELSE best

\* one iteration of the inner loop, on the n-th visited keyword
iteration(typed_text, n, best) ==
  LET similarity == similar(lower(typed_text), lower(visited[n].keyword))
  IN  IF improves(similarity, best.highest_similarity)
      THEN [best_match |-> visited[n].command, highest_similarity |-> similarity]
      ELSE best

\* iterations lo..hi, in order, starting from best.  The range is run as its
\* first half and then, from the state the first half leaves, its second
\* half, which keeps the evaluation shallow.
RECURSIVE iterations(_, _, _, _)
iterations(typed_text, lo, hi, best) ==
  IF lo > hi THEN best
  ELSE IF lo = hi THEN iteration(typed_text, lo, best)
  ELSE LET mid == (lo + hi) \div 2
       IN  CHOOSE last \in { iterations(typed_text, mid + 1, hi, half) :
                               half \in {iterations(typed_text, lo, mid, best)} } : TRUE

\* typed_text is the parameter user_input of suggest_command
suggest_command(typed_text) ==
  iterations(typed_text, 1, Len(visited),
             [best_match |-> NoCommand,
              highest_similarity |-> [num |-> 0, den |-> 1]]).best_match

(***************************************************************************)
(* The field classes: each operator is TRUE when the class constructor     *)
(* returns and FALSE when it raises ValueError                             *)
(***************************************************************************)
\* \d of the re module, on the characters of the model
isdigit(c) == c >= 48 /\ c <= 57

\* the number written by the decimal digits s[lo..hi]
RECURSIVE int(_, _, _)
int(s, lo, hi) == IF lo > hi THEN 0 ELSE 10 * int(s, lo, hi - 1) + (s[hi] - 48)

\* Name.__init__: len(value) >= 2
Name(value) == ~(Len(value) < 2)

\* Phone.__init__: re.match(r"^\d{10}$", value); $ also matches before a
\* final newline
Phone(value) ==
  /\ Len(value) >= 10
  /\ \A i \in 1..10 : isdigit(value[i])
  /\ \/ Len(value) = 10
     \/ Len(value) = 11 /\ value[11] = 10

\* Email.__init__: re.match(r"[^@]+@[^@]+\.[^@]+", value): anchored at the
\* start only; i is the end of the first [^@]+ and k the position of the dot
Email(value) ==
  \E i \in 1..Len(value) : \E k \in 1..Len(value) :
    /\ \A n \in 1..i : value[n] # 64
    /\ i + 1 <= Len(value) /\ value[i + 1] = 64
    /\ k >= i + 3
    /\ \A n \in (i + 2)..(k - 1) : value[n] # 64
    /\ value[k] = 46
    /\ k + 1 <= Len(value) /\ value[k + 1] # 64

\* days of a month of the proleptic Gregorian calendar (datetime.date)
days_in_month(month, year) ==
  IF month = 2
  THEN IF year % 4 = 0 /\ (year % 100 # 0 \/ year % 400 = 0) THEN 29 ELSE 28
  ELSE IF month \in {4, 6, 9, 11} THEN 30 ELSE 31

\* strptime's pattern for %d: 3[0-1] | [1-2]\d | 0[1-9] | [1-9] | " "[1-9]
directive_d(s, lo, hi) ==
  \/ hi = lo + 1 /\ s[lo] = 51 /\ s[hi] \in {48, 49}
  \/ hi = lo + 1 /\ s[lo] \in {49, 50} /\ isdigit(s[hi])
  \/ hi = lo + 1 /\ s[lo] = 48 /\ s[hi] >= 49 /\ s[hi] <= 57
  \/ hi = lo /\ s[lo] >= 49 /\ s[lo] <= 57
  \/ hi = lo + 1 /\ s[lo] = 32 /\ s[hi] >= 49 /\ s[hi] <= 57

\* strptime's pattern for %m: 1[0-2] | 0[1-9] | [1-9]
directive_m(s, lo, hi) ==
  \/ hi = lo + 1 /\ s[lo] = 49 /\ s[hi] \in {48, 49, 50}
  \/ hi = lo + 1 /\ s[lo] = 48 /\ s[hi] >= 49 /\ s[hi] <= 57
  \/ hi = lo /\ s[lo] >= 49 /\ s[lo] <= 57

\* the ways value reads as %d-%m-%Y, each as <<day, month, year>>: w holds the
\* widths of the day and of the month, the year is four digits and nothing
\* may follow it
strptime(value) ==
  { <<int(value, IF value[1] = 32 THEN 2 ELSE 1, w[1]),
      int(value, w[1] + 2, w[1] + 1 + w[2]),
      int(value, w[1] + w[2] + 3, w[1] + w[2] + 6)>> :
    w \in { v \in {1, 2} \X {1, 2} :
            /\ Len(value) = v[1] + v[2] + 6
            /\ directive_d(value, 1, v[1])
            /\ value[v[1] + 1] = 45
            /\ directive_m(value, v[1] + 2, v[1] + 1 + v[2])
            /\ value[v[1] + v[2] + 2] = 45
            /\ \A n \in (v[1] + v[2] + 3)..(v[1] + v[2] + 6) : isdigit(value[n]) } }

\* the dates datetime.strptime(value, '%d-%m-%Y').date() can return: none
\* when the text does not match or names no date (year 0, 31-02, ...)
dates(value) ==
  { d \in strptime(value) : d[3] >= 1 /\ d[1] <= days_in_month(d[2], d[3]) }

\* Birthday.__init__
Birthday(value) == dates(value) # {}

\* Address.__init__: len(value) >= 5
Address(value) == ~(Len(value) < 5)

\* validation_class(user_input), for each class the decorator is given:
\* it returns (TRUE) or raises ValueError (FALSE)
validates(class, value) ==
  CASE class = "Name"     -> Name(value)
    [] class = "Phone"    -> Phone(value)
    [] class = "Address"  -> Address(value)
    [] class = "Email"    -> Email(value)
    [] class = "Birthday" -> Birthday(value)

(***************************************************************************)
(* Values                                                                  *)
(***************************************************************************)
\* Python None, as a value that is no text (-1 is no code point)
None == <<-1>>

\* the lines typed in the model
exit_str == <<101, 120, 105, 116>>   \* the literal 'exit' (lines 18 and 363)
typed_Exit == <<69, 120, 105, 116>>   \* 'Exit'
typed_cancel == <<99, 97, 110, 99, 101, 108>>   \* 'cancel'
typed_Al == <<65, 108>>   \* 'Al'
typed_Bob == <<66, 111, 98>>   \* 'Bob'
typed_kontakt == <<1082, 1086, 1085, 1090, 1072, 1082, 1090>>   \* 'контакт'
typed_1 == <<49>>   \* '1'
typed_2 == <<50>>   \* '2'
typed_3 == <<51>>   \* '3'
typed_4 == <<52>>   \* '4'
typed_5 == <<53>>   \* '5'
typed_12345 == <<49, 50, 51, 52, 53>>   \* '12345'
typed_1234567890 == <<49, 50, 51, 52, 53, 54, 55, 56, 57, 48>>   \* '1234567890'
typed_0987654321 == <<48, 57, 56, 55, 54, 53, 52, 51, 50, 49>>   \* '0987654321'
typed_email == <<49, 64, 50, 46, 51>>   \* '1@2.3'
typed_31_02_2000 == <<51, 49, 45, 48, 50, 45, 50, 48, 48, 48>>   \* '31-02-2000'
typed_01_01_2000 == <<48, 49, 45, 48, 49, 45, 50, 48, 48, 48>>   \* '01-01-2000'
typed_tags == <<49, 44, 50>>   \* '1,2'
\* the first trigger phrase of each command, which is the command's own name
command_phrases == { keywords[n].command_list[1] : n \in 1..Len(keywords) }

\* 'exit' in every letter case: 'exit', 'Exit', 'eXit', ..., 'EXIT'
exit_in_any_case ==
  { <<e, x, i, t>> : e \in {101, 69}, x \in {120, 88}, i \in {105, 73}, t \in {116, 84} }

\* every line of the model
Lines ==
  command_phrases \cup exit_in_any_case \cup
  { <<>>, exit_str, typed_Exit, typed_cancel, typed_Al, typed_Bob, typed_kontakt,
    typed_1, typed_2, typed_3, typed_4, typed_5, typed_12345,
    typed_1234567890, typed_0987654321, typed_email,
    typed_31_02_2000, typed_01_01_2000, typed_tags }

\* suggest_command on the lines of the model, computed once
suggestions == { <<line, suggest_command(line)>> : line \in Lines }

\* suggest_command(line), looked up
suggested(line) == (CHOOSE s \in suggestions : s[1] = line)[2]

\* the two commands the guarded prompts intercept
vyity == "vyity"       \* 'вийти'
vidmina == "vidmina"   \* 'відміна'

\* str.split(','): the pieces between the commas
RECURSIVE split(_)
split(s) ==
  IF \A i \in 1..Len(s) : s[i] # 44 THEN <<s>>
  ELSE LET i == CHOOSE n \in 1..Len(s) : s[n] = 44 /\ \A m \in 1..(n - 1) : s[m] # 44
       IN  <<SubSeq(s, 1, i - 1)>> \o split(SubSeq(s, i + 1, Len(s)))

\* ','.join(tags)
RECURSIVE join(_)
join(tags) ==
  IF Len(tags) = 0 THEN <<>>
  ELSE IF Len(tags) = 1 THEN tags[1]
  ELSE tags[1] \o <<44>> \o join(Tail(tags))

(***************************************************************************)
(* State                                                                   *)
(***************************************************************************)
VARIABLES
  \* main
  pc,               \* the input() call main is blocked at, or the call it awaits
  command,          \* main's command, the command being carried out
  book,             \* AddressBook.data: key |-> Record
  notebook,         \* NoteBook.data: key |-> Note
  name, phone, address, email,   \* main's locals of these names
  record,           \* main's record / note: the key of the object being edited
  old_phone,        \* main's old_phone
  text,             \* main's text
  criterion,        \* main's criterion
  files,            \* addressbook.pkl and notebook.pkl: what save_data wrote
  main_user_input,  \* main's user_input: the line read at the command prompt
  \* handle_user_input.wrapper, the frame of the call in progress
  wrapper_pc,       \* "idle", "input", "suggest", "validate" or "returned"
  validation_class, \* the decorator's validation_class
  prompt,           \* wrapper's prompt
  user_input,       \* wrapper's user_input
  wrapper_command,  \* wrapper's command
  returned,         \* the value wrapper returned
  \* observation of the run
  displayed,        \* the prompt text the last input(prompt) of the call showed
  attempts,         \* lines read by the call
  errors,           \* rejection messages printed by the call
  validated,        \* validation_class was called on user_input
  outcome,          \* "Accepted", "Cancelled" or "Exited" once the call returned
  outcomes,         \* the outcomes of the calls made for the current command
  control_typed,    \* a line resolving to vyity/vidmina was typed at a prompt
                    \* of the current command
  book0, notebook0  \* book and notebook when the current command was chosen

main_locals == <<name, phone, address, email, record, old_phone, text, criterion>>
main_vars == <<pc, command, book, notebook, main_locals, files, main_user_input,
              book0, notebook0>>
wrapper_frame == <<wrapper_pc, validation_class, prompt, user_input, wrapper_command,
                   returned, displayed, attempts, errors, validated, outcome>>
vars == <<main_vars, wrapper_frame, outcomes, control_typed>>

Classes == {"Name", "Phone", "Address", "Email", "Birthday"}

(***************************************************************************)
(* handle_user_input(validation_class)(func).wrapper(prompt)               *)
(***************************************************************************)
\* no call in progress
no_call ==
  /\ wrapper_pc' = "idle"
  /\ validation_class' = "Name"
  /\ prompt' = ""
  /\ user_input' = <<>>
  /\ wrapper_command' = NoCommand
  /\ returned' = None
  /\ displayed' = ""
  /\ attempts' = 0
  /\ errors' = 0
  /\ validated' = FALSE
  /\ outcome' = "running"

\* get_name(p), get_phone(p), ...: enter wrapper with its prompt
call(class, p) ==
  /\ wrapper_pc' = "input"
  /\ validation_class' = class
  /\ prompt' = p
  /\ user_input' = <<>>
  /\ wrapper_command' = NoCommand
  /\ returned' = None
  /\ displayed' = ""
  /\ attempts' = 0
  /\ errors' = 0
  /\ validated' = FALSE
  /\ outcome' = "running"

\* a variant of line 14 that would read a line again after the call returned
wrapper_input_again(typed) ==
  /\ wrapper_pc \in {"input", "returned"}
  /\ attempts < MaxAttempts
  /\ \E line \in typed :
       /\ user_input' = line
       /\ control_typed' = (control_typed \/ suggested(line) \in {vyity, vidmina})
  /\ displayed' = prompt
  /\ attempts' = attempts + 1
  /\ validated' = FALSE
  /\ wrapper_command' = NoCommand
  /\ wrapper_pc' = "suggest"
  /\ UNCHANGED <<validation_class, prompt, returned, errors, outcome, outcomes, main_vars>>

\* a variant of line 14 that would show another prompt after a rejection
wrapper_input_retry(typed) ==
  /\ wrapper_pc = "input"
  /\ attempts < MaxAttempts
  /\ \E line \in typed :
       /\ user_input' = line
       /\ control_typed' = (control_typed \/ suggested(line) \in {vyity, vidmina})
  /\ displayed' = IF attempts = 0 THEN prompt ELSE "retry"
  /\ attempts' = attempts + 1
  /\ validated' = FALSE
  /\ wrapper_command' = NoCommand
  /\ wrapper_pc' = "suggest"
  /\ UNCHANGED <<validation_class, prompt, returned, errors, outcome, outcomes, main_vars>>

\* line 14: user_input = input(prompt), the user typing one of typed
wrapper_input(typed) ==
  /\ wrapper_pc = "input"
  /\ attempts < MaxAttempts
  /\ \E line \in typed :
       /\ user_input' = line
       /\ control_typed' = (control_typed \/ suggested(line) \in {vyity, vidmina})
  /\ displayed' = prompt
  /\ attempts' = attempts + 1
  /\ validated' = FALSE
  /\ wrapper_command' = NoCommand
  /\ wrapper_pc' = "suggest"
  /\ UNCHANGED <<validation_class, prompt, returned, errors, outcome, outcomes, main_vars>>

\* a variant of lines 15-21 without the test of line 16
wrapper_suggest_exit_unchecked ==
  /\ wrapper_pc = "suggest"
  /\ wrapper_command' = suggested(user_input)
  /\ IF wrapper_command' = vidmina
     THEN /\ returned' = None
          /\ outcome' = "Cancelled"
          /\ outcomes' = Append(outcomes, "Cancelled")
          /\ wrapper_pc' = "returned"
     ELSE /\ wrapper_pc' = "validate"
          /\ UNCHANGED <<returned, outcome, outcomes>>
  /\ UNCHANGED <<validation_class, prompt, user_input, displayed, attempts, errors,
                 validated, control_typed, main_vars>>

\* a variant of lines 15-21 without the test of line 19
wrapper_suggest_cancel_unchecked ==
  /\ wrapper_pc = "suggest"
  /\ wrapper_command' = suggested(user_input)
  /\ IF wrapper_command' = vyity
     THEN /\ returned' = exit_str
          /\ outcome' = "Exited"
          /\ outcomes' = Append(outcomes, "Exited")
          /\ wrapper_pc' = "returned"
     ELSE /\ wrapper_pc' = "validate"
          /\ UNCHANGED <<returned, outcome, outcomes>>
  /\ UNCHANGED <<validation_class, prompt, user_input, displayed, attempts, errors,
                 validated, control_typed, main_vars>>

\* lines 15-21: command = suggest_command(user_input) and the two returns
wrapper_suggest ==
  /\ wrapper_pc = "suggest"
  /\ wrapper_command' = suggested(user_input)
  /\ IF wrapper_command' = vyity
     THEN /\ returned' = exit_str
          /\ outcome' = "Exited"
          /\ outcomes' = Append(outcomes, "Exited")
          /\ wrapper_pc' = "returned"
     ELSE IF wrapper_command' = vidmina
     THEN /\ returned' = None
          /\ outcome' = "Cancelled"
          /\ outcomes' = Append(outcomes, "Cancelled")
          /\ wrapper_pc' = "returned"
     ELSE /\ wrapper_pc' = "validate"
          /\ UNCHANGED <<returned, outcome, outcomes>>
  /\ UNCHANGED <<validation_class, prompt, user_input, displayed, attempts, errors,
                 validated, control_typed, main_vars>>

\* a variant of lines 22-29 that would give up at the second rejection
wrapper_validate_gives_up ==
  /\ wrapper_pc = "validate"
  /\ validated' = TRUE
  /\ IF validates(validation_class, user_input)
     THEN /\ returned' = user_input
          /\ outcome' = "Accepted"
          /\ outcomes' = Append(outcomes, "Accepted")
          /\ wrapper_pc' = "returned"
          /\ UNCHANGED errors
     ELSE /\ errors' = errors + 1
          /\ IF errors' >= 2
             THEN /\ returned' = None
                  /\ outcome' = "Cancelled"
                  /\ outcomes' = Append(outcomes, "Cancelled")
                  /\ wrapper_pc' = "returned"
             ELSE /\ wrapper_pc' = "input"
                  /\ UNCHANGED <<returned, outcome, outcomes>>
  /\ UNCHANGED <<validation_class, prompt, user_input, wrapper_command, displayed,
                 attempts, control_typed, main_vars>>

\* a variant of lines 22-29 that would return the line lower-cased
wrapper_validate_lowered ==
  /\ wrapper_pc = "validate"
  /\ validated' = TRUE
  /\ IF validates(validation_class, user_input)
     THEN /\ returned' = lower(user_input)
          /\ outcome' = "Accepted"
          /\ outcomes' = Append(outcomes, "Accepted")
          /\ wrapper_pc' = "returned"
          /\ UNCHANGED errors
     ELSE /\ errors' = errors + 1
          /\ wrapper_pc' = "input"
          /\ UNCHANGED <<returned, outcome, outcomes>>
  /\ UNCHANGED <<validation_class, prompt, user_input, wrapper_command, displayed,
                 attempts, control_typed, main_vars>>

\* lines 22-29: the validation, the error message and continue, or
\* return func(user_input), where every decorated func returns user_input
wrapper_validate ==
  /\ wrapper_pc = "validate"
  /\ validated' = TRUE
  /\ IF validates(validation_class, user_input)
     THEN /\ returned' = user_input
          /\ outcome' = "Accepted"
          /\ outcomes' = Append(outcomes, "Accepted")
          /\ wrapper_pc' = "returned"
          /\ UNCHANGED errors
     ELSE /\ errors' = errors + 1
          /\ wrapper_pc' = "input"
          /\ UNCHANGED <<returned, outcome, outcomes>>
  /\ UNCHANGED <<validation_class, prompt, user_input, wrapper_command, displayed,
                 attempts, control_typed, main_vars>>

(***************************************************************************)
(* Record, AddressBook, Note, NoteBook                                     *)
(***************************************************************************)
\* Record.__init__, once Name(name) has returned
Record(n) == [name |-> n, phones |-> <<>>, address |-> None, email |-> None,
              birthday |-> None]

\* Record.add_phone
add_phone(r, p) == [r EXCEPT !.phones = Append(@, p)]

\* Record.edit_phone: the first phone equal to old_phone is replaced
edit_phone(r, old, new) ==
  IF \E i \in 1..Len(r.phones) : r.phones[i] = old
  THEN LET i == CHOOSE n \in 1..Len(r.phones) :
                  r.phones[n] = old /\ \A m \in 1..(n - 1) : r.phones[m] # old
       IN  [r EXCEPT !.phones[i] = new]
  ELSE r

\* Birthday(birthday).value: the parsed date
birthday_value(value) == CHOOSE d \in dates(value) : TRUE

\* AddressBook.add_record: self.data[record.name.value] = record
add_record(data, r) ==
  [k \in DOMAIN data \cup {r.name} |-> IF k = r.name THEN r ELSE data[k]]

\* AddressBook.delete and NoteBook.delete: del self.data[key] if present
delete(data, key) == [k \in DOMAIN data \ {key} |-> data[k]]

\* Note.__init__
Note(t, tags) == [text |-> t, tags |-> IF Len(tags) # 0 THEN tags ELSE <<>>]

\* NoteBook.add_note: self.data[note.text] = note
add_note(data, note) ==
  [k \in DOMAIN data \cup {note.text} |-> IF k = note.text THEN note ELSE data[k]]

\* an empty AddressBook or NoteBook
empty == [k \in {} |-> None]

(***************************************************************************)
(* What the user types at each prompt of a session                         *)
(***************************************************************************)
\* at the command prompt: the name of a command, or something unrecognised
typed_commands == command_phrases \cup {typed_12345}

\* at the prompts of get_name, get_phone, get_address, get_email, get_birthday
typed_for(class) ==
  CASE class = "Name"     -> {exit_str, typed_cancel, typed_Al, typed_1, typed_Bob,
                              typed_kontakt}
    [] class = "Phone"    -> {exit_str, typed_cancel, typed_12345, typed_1234567890,
                              typed_0987654321}
    [] class = "Address"  -> {exit_str, typed_cancel, typed_1, typed_12345}
    [] class = "Email"    -> {exit_str, typed_cancel, typed_Bob, typed_email}
    [] class = "Birthday" -> {exit_str, typed_cancel, typed_31_02_2000,
                              typed_01_01_2000}

\* at the menus (criterion, field)
typed_choices == {typed_1, typed_2, typed_3, typed_4, typed_5, typed_12345,
                  typed_cancel}

\* where a contact is named or searched for
typed_contacts == {exit_str, typed_cancel, typed_Bob, typed_kontakt}

\* where a note is named, searched for or written
typed_notes == {exit_str, typed_cancel, typed_Bob}

\* where tags are typed
typed_taglists == {exit_str, typed_cancel, typed_tags}

\* where a number of days is typed
typed_days == {exit_str, typed_cancel, typed_5, typed_Bob}

(***************************************************************************)
(* main                                                                    *)
(***************************************************************************)
Init ==
  /\ pc = "command"
  /\ command = NoCommand
  /\ book = empty
  /\ notebook = empty
  /\ name = None /\ phone = None /\ address = None /\ email = None
  /\ record = None /\ old_phone = None /\ text = None /\ criterion = ""
  /\ files = [addressbook_pkl |-> {}, notebook_pkl |-> {}]
  /\ main_user_input = None
  /\ wrapper_pc = "idle"
  /\ validation_class = "Name"
  /\ prompt = ""
  /\ user_input = <<>>
  /\ wrapper_command = NoCommand
  /\ returned = None
  /\ displayed = ""
  /\ attempts = 0
  /\ errors = 0
  /\ validated = FALSE
  /\ outcome = "running"
  /\ outcomes = <<>>
  /\ control_typed = FALSE
  /\ book0 = empty
  /\ notebook0 = empty

\* the locals of main hold nothing that is read again
clear_locals ==
  /\ name' = None /\ phone' = None /\ address' = None /\ email' = None
  /\ record' = None /\ old_phone' = None /\ text' = None /\ criterion' = ""

\* continue: back to the input() of line 353; command is not read again
\* before it is assigned, and the calls of the command are over
continue ==
  /\ pc' = "command"
  /\ command' = NoCommand
  /\ outcomes' = <<>>
  /\ clear_locals
  /\ no_call

\* main goes on to the place p of the same command
goto(p) ==
  /\ pc' = p
  /\ UNCHANGED <<command, outcomes>>

\* value in ['exit', None]
exit_or_None(value) == value \in {exit_str, None}

\* lines 353-354: a line is typed at the command prompt that resolves to cmd
typed_command(cmd) ==
  /\ pc = "command"
  /\ \E line \in typed_commands :
       /\ suggested(line) = cmd
       /\ main_user_input' = line
  /\ book0' = book
  /\ notebook0' = notebook
  /\ control_typed' = FALSE

\* the dispatch to the branch of cmd
chosen(cmd) ==
  /\ typed_command(cmd)
  /\ command' = cmd
  /\ outcomes' = <<>>

\* a line typed at an input() of main outside wrapper
typed_in_main(line) ==
  control_typed' = (control_typed \/ suggested(line) \in {vyity, vidmina})

\* suggest_command(x) == 'вийти' or suggest_command(x) == 'відміна'
cancels(line) == suggested(line) = vyity \/ suggested(line) = vidmina

\* a variant of lines 356-359 that would leave the loop (break for continue)
main_unrecognised_breaks ==
  /\ typed_command(NoCommand)
  /\ pc' = "finished"
  /\ command' = NoCommand
  /\ outcomes' = <<>>
  /\ clear_locals
  /\ no_call
  /\ UNCHANGED <<book, notebook, files>>

\* lines 356-359: if not command
main_unrecognised ==
  /\ typed_command(NoCommand)
  /\ continue
  /\ UNCHANGED <<book, notebook, files>>

\* lines 560-563
main_show_all_contacts ==
  /\ typed_command("pokazaty vsi kontakty")
  /\ continue
  /\ UNCHANGED <<book, notebook, files>>

\* lines 565-569: save_data twice and break
main_exit ==
  /\ chosen(vyity)
  /\ files' = [addressbook_pkl |-> {book}, notebook_pkl |-> {notebook}]
  /\ pc' = "finished"
  /\ clear_locals
  /\ no_call
  /\ UNCHANGED <<book, notebook>>

\* lines 571-572: the command has no branch ('відміна' at the command prompt)
main_else ==
  /\ typed_command(vidmina)
  /\ continue
  /\ UNCHANGED <<book, notebook, files>>

\* -------- 'додати контакт', lines 361-383
main_add_contact ==
  /\ chosen("dodaty kontakt")
  /\ pc' = "add_name"
  /\ call("Name", "name")
  /\ UNCHANGED <<book, notebook, files, main_locals>>

\* a step of main that reads no line and chooses no command
same_command == UNCHANGED <<main_user_input, book0, notebook0, control_typed>>

\* a variant of lines 362-365 that would treat 'exit' at the name prompt as
\* the command 'вийти': save both files and leave the loop
add_contact_name_exits ==
  /\ pc = "add_name" /\ wrapper_pc = "returned"
  /\ IF returned = exit_str
     THEN /\ files' = [addressbook_pkl |-> {book}, notebook_pkl |-> {notebook}]
          /\ pc' = "finished"
          /\ command' = NoCommand
          /\ outcomes' = <<>>
          /\ clear_locals
          /\ no_call
     ELSE /\ files' = files
          /\ IF returned = None
             THEN continue
             ELSE /\ name' = returned
                  /\ goto("add_phone")
                  /\ call("Phone", "phone")
                  /\ UNCHANGED <<phone, address, email, record, old_phone, text,
                                 criterion>>
  /\ same_command
  /\ UNCHANGED <<book, notebook>>

\* lines 362-365
add_contact_name ==
  /\ pc = "add_name" /\ wrapper_pc = "returned"
  /\ IF exit_or_None(returned)
     THEN continue
     ELSE /\ name' = returned
          /\ goto("add_phone")
          /\ call("Phone", "phone")
          /\ UNCHANGED <<phone, address, email, record, old_phone, text, criterion>>
  /\ same_command
  /\ UNCHANGED <<book, notebook, files>>

\* lines 366-368
add_contact_phone ==
  /\ pc = "add_phone" /\ wrapper_pc = "returned"
  /\ IF exit_or_None(returned)
     THEN continue
     ELSE /\ phone' = returned
          /\ goto("add_address")
          /\ call("Address", "address")
          /\ UNCHANGED <<name, address, email, record, old_phone, text, criterion>>
  /\ same_command
  /\ UNCHANGED <<book, notebook, files>>

\* lines 369-371
add_contact_address ==
  /\ pc = "add_address" /\ wrapper_pc = "returned"
  /\ IF exit_or_None(returned)
     THEN continue
     ELSE /\ address' = returned
          /\ goto("add_email")
          /\ call("Email", "email")
          /\ UNCHANGED <<name, phone, email, record, old_phone, text, criterion>>
  /\ same_command
  /\ UNCHANGED <<book, notebook, files>>

\* lines 372-374
add_contact_email ==
  /\ pc = "add_email" /\ wrapper_pc = "returned"
  /\ IF exit_or_None(returned)
     THEN continue
     ELSE /\ email' = returned
          /\ goto("add_birthday")
          /\ call("Birthday", "birthday")
          /\ UNCHANGED <<name, phone, address, record, old_phone, text, criterion>>
  /\ same_command
  /\ UNCHANGED <<book, notebook, files>>

\* the record of lines 377-381
new_record(n, p, a, e, b) ==
  [add_phone(Record(n), p) EXCEPT !.address = a, !.email = e,
                                  !.birthday = birthday_value(b)]

\* a variant of lines 375-383 without the test of line 375
add_contact_birthday_commits_anyway ==
  /\ pc = "add_birthday" /\ wrapper_pc = "returned"
  /\ book' = add_record(book, [add_phone(Record(name), phone) EXCEPT
                                 !.address = address, !.email = email])
  /\ continue
  /\ same_command
  /\ UNCHANGED <<notebook, files>>

\* lines 375-383; a field class raising in lines 377-381 would leave main
add_contact_birthday ==
  /\ pc = "add_birthday" /\ wrapper_pc = "returned"
  /\ IF exit_or_None(returned)
     THEN continue /\ UNCHANGED book
     ELSE IF Name(name) /\ Phone(phone) /\ Address(address) /\ Email(email)
             /\ Birthday(returned)
     THEN /\ book' = add_record(book, new_record(name, phone, address, email, returned))
          /\ continue
     ELSE /\ pc' = "raised"
          /\ UNCHANGED <<command, outcomes>>
          /\ clear_locals
          /\ no_call
          /\ UNCHANGED book
  /\ same_command
  /\ UNCHANGED <<notebook, files>>

\* -------- 'знайти контакт', lines 385-418
main_find_contact ==
  /\ chosen("znaity kontakt")
  /\ pc' = "find_criterion"
  /\ UNCHANGED <<book, notebook, files, main_locals, wrapper_frame>>

\* lines 391-407: criterion_choice
find_contact_criterion ==
  /\ pc = "find_criterion"
  /\ \E criterion_choice \in typed_choices :
       /\ typed_in_main(criterion_choice)
       /\ IF criterion_choice \in {typed_1, typed_2, typed_3, typed_4}
          THEN /\ criterion' = CASE criterion_choice = typed_1 -> "name"
                                 [] criterion_choice = typed_2 -> "phone"
                                 [] criterion_choice = typed_3 -> "email"
                                 [] criterion_choice = typed_4 -> "address"
               /\ goto("find_keyword")
               /\ UNCHANGED <<name, phone, address, email, record, old_phone, text,
                              wrapper_frame>>
          ELSE continue
  /\ UNCHANGED <<main_user_input, book0, notebook0, book, notebook, files>>

\* lines 395-418: keyword; book.search only reads the book
find_contact_keyword ==
  /\ pc = "find_keyword"
  /\ \E keyword \in typed_contacts : typed_in_main(keyword)
  /\ continue
  /\ UNCHANGED <<main_user_input, book0, notebook0, book, notebook, files>>

\* -------- 'видалити контакт', lines 420-428
main_delete_contact ==
  /\ chosen("vydalyty kontakt")
  /\ pc' = "delete_name"
  /\ UNCHANGED <<book, notebook, files, main_locals, wrapper_frame>>

delete_contact_name ==
  /\ pc = "delete_name"
  /\ \E n \in typed_contacts :
       /\ typed_in_main(n)
       /\ IF cancels(n) THEN UNCHANGED book ELSE book' = delete(book, n)
  /\ continue
  /\ UNCHANGED <<main_user_input, book0, notebook0, notebook, files>>

\* -------- 'редагувати контакт', lines 430-476
main_edit_contact ==
  /\ chosen("redaguvaty kontakt")
  /\ pc' = "edit_which"
  /\ UNCHANGED <<book, notebook, files, main_locals, wrapper_frame>>

\* lines 431-435: record = book.find(name)
edit_contact_which ==
  /\ pc = "edit_which"
  /\ \E n \in typed_contacts :
       /\ typed_in_main(n)
       /\ IF n \notin DOMAIN book
          THEN continue
          ELSE /\ name' = n
               /\ record' = n
               /\ goto("edit_field")
               /\ UNCHANGED <<phone, address, email, old_phone, text, criterion,
                              wrapper_frame>>
  /\ UNCHANGED <<main_user_input, book0, notebook0, book, notebook, files>>

\* lines 443-476: field_choice and the call of the getter it selects
edit_contact_field ==
  /\ pc = "edit_field"
  /\ \E field_choice \in typed_choices :
       /\ typed_in_main(field_choice)
       /\ IF field_choice \in {typed_1, typed_2, typed_3, typed_4, typed_5}
          THEN /\ CASE field_choice = typed_1 ->
                         goto("edit_new_name") /\ call("Name", "new name")
                    [] field_choice = typed_2 ->
                         goto("edit_old_phone") /\ call("Phone", "old phone")
                    [] field_choice = typed_3 ->
                         goto("edit_new_email") /\ call("Email", "new email")
                    [] field_choice = typed_4 ->
                         goto("edit_new_address") /\ call("Address", "new address")
                    [] field_choice = typed_5 ->
                         goto("edit_new_birthday") /\ call("Birthday", "new birthday")
               /\ UNCHANGED main_locals
          ELSE continue
  /\ UNCHANGED <<main_user_input, book0, notebook0, book, notebook, files>>

\* lines 446-449
edit_contact_new_name ==
  /\ pc = "edit_new_name" /\ wrapper_pc = "returned"
  /\ IF ~exit_or_None(returned)
     THEN book' = [book EXCEPT ![record].name = returned]
     ELSE UNCHANGED book
  /\ continue
  /\ same_command
  /\ UNCHANGED <<notebook, files>>

\* lines 451-453: old_phone is kept, whatever it is, and get_phone is called
\* again
edit_contact_old_phone ==
  /\ pc = "edit_old_phone" /\ wrapper_pc = "returned"
  /\ old_phone' = returned
  /\ goto("edit_new_phone")
  /\ call("Phone", "new phone")
  /\ same_command
  /\ UNCHANGED <<name, phone, address, email, record, text, criterion>>
  /\ UNCHANGED <<book, notebook, files>>

\* lines 454-458
edit_contact_new_phone ==
  /\ pc = "edit_new_phone" /\ wrapper_pc = "returned"
  /\ IF ~exit_or_None(old_phone) /\ ~exit_or_None(returned)
     THEN book' = [book EXCEPT ![record] = edit_phone(@, old_phone, returned)]
     ELSE UNCHANGED book
  /\ continue
  /\ same_command
  /\ UNCHANGED <<notebook, files>>

\* a variant of lines 460-463 without the test of line 461
edit_contact_new_email_unchecked ==
  /\ pc = "edit_new_email" /\ wrapper_pc = "returned"
  /\ book' = [book EXCEPT ![record].email = returned]
  /\ continue
  /\ same_command
  /\ UNCHANGED <<notebook, files>>

\* lines 460-463
edit_contact_new_email ==
  /\ pc = "edit_new_email" /\ wrapper_pc = "returned"
  /\ IF ~exit_or_None(returned)
     THEN book' = [book EXCEPT ![record].email = returned]
     ELSE UNCHANGED book
  /\ continue
  /\ same_command
  /\ UNCHANGED <<notebook, files>>

\* lines 465-468
edit_contact_new_address ==
  /\ pc = "edit_new_address" /\ wrapper_pc = "returned"
  /\ IF ~exit_or_None(returned)
     THEN book' = [book EXCEPT ![record].address = returned]
     ELSE UNCHANGED book
  /\ continue
  /\ same_command
  /\ UNCHANGED <<notebook, files>>

\* lines 470-474
edit_contact_new_birthday ==
  /\ pc = "edit_new_birthday" /\ wrapper_pc = "returned"
  /\ IF ~exit_or_None(returned)
     THEN book' = [book EXCEPT ![record].birthday = birthday_value(returned)]
     ELSE UNCHANGED book
  /\ continue
  /\ same_command
  /\ UNCHANGED <<notebook, files>>

\* -------- 'редагувати нотатку', lines 478-503
main_edit_note ==
  /\ chosen("redaguvaty notatku")
  /\ pc' = "editnote_which"
  /\ UNCHANGED <<book, notebook, files, main_locals, wrapper_frame>>

\* lines 479-483: note = notebook.find(text)
edit_note_which ==
  /\ pc = "editnote_which"
  /\ \E t \in typed_notes :
       /\ typed_in_main(t)
       /\ IF t \notin DOMAIN notebook
          THEN continue
          ELSE /\ text' = t
               /\ goto("editnote_field")
               /\ UNCHANGED <<name, phone, address, email, record, old_phone,
                              criterion, wrapper_frame>>
  /\ UNCHANGED <<main_user_input, book0, notebook0, book, notebook, files>>

\* lines 488-503: field_choice
edit_note_field ==
  /\ pc = "editnote_field"
  /\ \E field_choice \in typed_choices :
       /\ typed_in_main(field_choice)
       /\ IF field_choice = typed_1
          THEN goto("editnote_new_text") /\ UNCHANGED <<main_locals, wrapper_frame>>
          ELSE IF field_choice = typed_2
          THEN goto("editnote_new_tags") /\ UNCHANGED <<main_locals, wrapper_frame>>
          ELSE continue
  /\ UNCHANGED <<main_user_input, book0, notebook0, book, notebook, files>>

\* lines 491-496: new_text is read by input() and compared with 'exit' and None;
\* note.edit_text(new_text); notebook.add_note(note); notebook.delete(text)
edit_note_new_text ==
  /\ pc = "editnote_new_text"
  /\ \E new_text \in typed_notes :
       /\ typed_in_main(new_text)
       /\ IF ~exit_or_None(new_text)
          THEN notebook' = delete(add_note(notebook,
                                    [notebook[text] EXCEPT !.text = new_text]), text)
          ELSE UNCHANGED notebook
  /\ continue
  /\ UNCHANGED <<main_user_input, book0, notebook0, book, files>>

\* lines 498-501: new_tags is a list, which is never in ['exit', None]
edit_note_new_tags ==
  /\ pc = "editnote_new_tags"
  /\ \E line \in typed_taglists :
       /\ typed_in_main(line)
       /\ notebook' = [notebook EXCEPT ![text].tags = split(line)]
  /\ continue
  /\ UNCHANGED <<main_user_input, book0, notebook0, book, files>>

\* -------- 'дні народження', lines 505-522
main_birthdays ==
  /\ chosen("dni narodzhennia")
  /\ pc' = "birthdays_days"
  /\ UNCHANGED <<book, notebook, files, main_locals, wrapper_frame>>

\* lines 506-522: every path only prints
birthdays_days ==
  /\ pc = "birthdays_days"
  /\ \E days \in typed_days : typed_in_main(days)
  /\ continue
  /\ UNCHANGED <<main_user_input, book0, notebook0, book, notebook, files>>

\* -------- 'додати нотатку', lines 524-535
main_add_note ==
  /\ chosen("dodaty notatku")
  /\ pc' = "addnote_text"
  /\ UNCHANGED <<book, notebook, files, main_locals, wrapper_frame>>

\* lines 525-528
add_note_text ==
  /\ pc = "addnote_text"
  /\ \E t \in typed_notes :
       /\ typed_in_main(t)
       /\ IF cancels(t)
          THEN continue
          ELSE /\ text' = t
               /\ goto("addnote_tags")
               /\ UNCHANGED <<name, phone, address, email, record, old_phone,
                              criterion, wrapper_frame>>
  /\ UNCHANGED <<main_user_input, book0, notebook0, book, notebook, files>>

\* lines 529-535
add_note_tags ==
  /\ pc = "addnote_tags"
  /\ \E line \in typed_taglists :
       /\ typed_in_main(line)
       /\ IF cancels(join(split(line)))
          THEN UNCHANGED notebook
          ELSE notebook' = add_note(notebook, Note(text, split(line)))
  /\ continue
  /\ UNCHANGED <<main_user_input, book0, notebook0, book, files>>

\* -------- 'знайти нотатку', lines 537-548
main_find_note ==
  /\ chosen("znaity notatku")
  /\ pc' = "findnote_keyword"
  /\ UNCHANGED <<book, notebook, files, main_locals, wrapper_frame>>

\* lines 538-548: notebook.search only reads the notebook
find_note_keyword ==
  /\ pc = "findnote_keyword"
  /\ \E keyword \in typed_notes : typed_in_main(keyword)
  /\ continue
  /\ UNCHANGED <<main_user_input, book0, notebook0, book, notebook, files>>

\* -------- 'видалити нотатку', lines 550-558
main_delete_note ==
  /\ chosen("vydalyty notatku")
  /\ pc' = "delnote_text"
  /\ UNCHANGED <<book, notebook, files, main_locals, wrapper_frame>>

delete_note_text ==
  /\ pc = "delnote_text"
  /\ \E t \in typed_notes :
       /\ typed_in_main(t)
       /\ IF cancels(t) THEN UNCHANGED notebook ELSE notebook' = delete(notebook, t)
  /\ continue
  /\ UNCHANGED <<main_user_input, book0, notebook0, book, files>>

(***************************************************************************)
(* Specifications                                                          *)
(***************************************************************************)
\* the guarded prompt in progress reads its next line
session_input == wrapper_input(typed_for(validation_class))

\* the session: main and the guarded prompts it calls
Next ==
  \/ main_unrecognised \/ main_show_all_contacts \/ main_exit \/ main_else
  \/ main_add_contact \/ add_contact_name \/ add_contact_phone
  \/ add_contact_address \/ add_contact_email \/ add_contact_birthday
  \/ main_find_contact \/ find_contact_criterion \/ find_contact_keyword
  \/ main_delete_contact \/ delete_contact_name
  \/ main_edit_contact \/ edit_contact_which \/ edit_contact_field
  \/ edit_contact_new_name \/ edit_contact_old_phone \/ edit_contact_new_phone
  \/ edit_contact_new_email \/ edit_contact_new_address \/ edit_contact_new_birthday
  \/ main_edit_note \/ edit_note_which \/ edit_note_field
  \/ edit_note_new_text \/ edit_note_new_tags
  \/ main_birthdays \/ birthdays_days
  \/ main_add_note \/ add_note_text \/ add_note_tags
  \/ main_find_note \/ find_note_keyword
  \/ main_delete_note \/ delete_note_text
  \/ session_input \/ wrapper_suggest \/ wrapper_validate

Spec == Init /\ [][Next]_vars

(***************************************************************************)
(* One guarded prompt at a time: get_name ... get_birthday called with any *)
(* line of the model typed at the prompt                                   *)
(***************************************************************************)
\* a caller is about to call one of the five getters
InitLoop ==
  /\ pc = "get"
  /\ command = NoCommand
  /\ book = empty
  /\ notebook = empty
  /\ name = None /\ phone = None /\ address = None /\ email = None
  /\ record = None /\ old_phone = None /\ text = None /\ criterion = ""
  /\ files = [addressbook_pkl |-> {}, notebook_pkl |-> {}]
  /\ main_user_input = None
  /\ wrapper_pc = "idle"
  /\ validation_class = "Name"
  /\ prompt = ""
  /\ user_input = <<>>
  /\ wrapper_command = NoCommand
  /\ returned = None
  /\ displayed = ""
  /\ attempts = 0
  /\ errors = 0
  /\ validated = FALSE
  /\ outcome = "running"
  /\ outcomes = <<>>
  /\ control_typed = FALSE
  /\ book0 = empty
  /\ notebook0 = empty

\* lines 322-344: get_name(prompt), get_phone(prompt), get_address(prompt),
\* get_email(prompt) or get_birthday(prompt) is called, once the call before
\* it, if any, has returned
get_call ==
  /\ pc = "get"
  /\ wrapper_pc \in {"idle", "returned"}
  /\ \E class \in Classes : call(class, "prompt")
  /\ outcomes' = <<>>
  /\ control_typed' = FALSE
  /\ UNCHANGED main_vars

\* line 14 with any line of the model typed
get_input == pc = "get" /\ wrapper_input(Lines)

NextLoop == get_call \/ get_input \/ wrapper_suggest \/ wrapper_validate

SpecLoop == InitLoop /\ [][NextLoop]_vars

\* wrapper runs on once input() has returned: lines 15-29 wait for nothing
FairLoop == SpecLoop /\ WF_vars(wrapper_suggest) /\ WF_vars(wrapper_validate)

(***************************************************************************)
(* suggest_command applied to a text                                       *)
(***************************************************************************)
\* the letters the generated texts are made of: 'e', 'x', '1', U+0432, U+0438
Alphabet == {101, 120, 49, 1074, 1080}

\* the texts of length n over Alphabet
RECURSIVE texts_of_length(_)
texts_of_length(n) ==
  IF n = 0 THEN {<<>>}
  ELSE { Append(t, c) : t \in texts_of_length(n - 1), c \in Alphabet }

\* the two trigger phrases listed under both 'видалити контакт' (lines 255-263)
\* and 'видалити нотатку' (lines 285-292): 'видалити запис', 'стерти запис'
typed_vydalyty_zapys == <<1074, 1080, 1076, 1072, 1083, 1080, 1090, 1080, 32,
                          1079, 1072, 1087, 1080, 1089>>
typed_sterty_zapys == <<1089, 1090, 1077, 1088, 1090, 1080, 32,
                        1079, 1072, 1087, 1080, 1089>>

\* every keyword of the catalog
catalog_keywords == { visited[n].keyword : n \in 1..Len(visited) }

\* 'ВИЙТИ' and 'Відміна': keywords typed with capitals
typed_VYITY == <<1042, 1048, 1049, 1058, 1048>>
typed_Vidmina == <<1042, 1110, 1076, 1084, 1110, 1085, 1072>>

\* the texts handed to suggest_command
Texts ==
  Lines \cup {typed_vydalyty_zapys, typed_sterty_zapys}
        \cup UNION { texts_of_length(n) : n \in 0..MaxTextLen }
        \cup catalog_keywords
        \cup {typed_VYITY, typed_Vidmina}

\* suggest_command(user_input) is about to be called (lines 15 and 354)
InitResolve ==
  /\ pc = "suggest_command"
  /\ user_input \in Texts
  /\ command = NoCommand
  /\ book = empty
  /\ notebook = empty
  /\ name = None /\ phone = None /\ address = None /\ email = None
  /\ record = None /\ old_phone = None /\ text = None /\ criterion = ""
  /\ files = [addressbook_pkl |-> {}, notebook_pkl |-> {}]
  /\ main_user_input = None
  /\ wrapper_pc = "idle"
  /\ validation_class = "Name"
  /\ prompt = ""
  /\ wrapper_command = NoCommand
  /\ returned = None
  /\ displayed = ""
  /\ attempts = 0
  /\ errors = 0
  /\ validated = FALSE
  /\ outcome = "running"
  /\ outcomes = <<>>
  /\ control_typed = FALSE
  /\ book0 = empty
  /\ notebook0 = empty

\* line 354: command = suggest_command(user_input)
call_suggest_command ==
  /\ pc = "suggest_command"
  /\ command' = suggest_command(user_input)
  /\ pc' = "resolved"
  /\ UNCHANGED <<book, notebook, main_locals, files, main_user_input,
                 book0, notebook0,
                 wrapper_frame, outcomes, control_typed>>

NextResolve == call_suggest_command

SpecResolve == InitResolve /\ [][NextResolve]_vars

(***************************************************************************)
(* Properties of the guarded input loop                                    *)
(***************************************************************************)
\* the call in progress has read and resolved user_input
resolved_line ==
  \/ wrapper_pc \in {"validate", "returned"}
  \/ wrapper_pc = "input" /\ attempts > 0

\* user_input ends the call: it resolves to 'вийти' or 'відміна', or the
\* validation class accepts it
terminating_line == cancels(user_input) \/ validates(validation_class, user_input)

\* C1: every line read is resolved before any validation; a line resolving
\* to 'вийти' makes the call return 'exit' (Exited) and one resolving to
\* 'відміна' makes it return None (Cancelled), the validation class never
\* having been called on that line, whether or not it would accept the line.
ControlBeforeValidation ==
  /\ (validated \/ wrapper_pc = "validate") =>
        /\ wrapper_command = suggested(user_input)
        /\ ~cancels(user_input)
  /\ resolved_line /\ suggested(user_input) = vyity =>
        /\ wrapper_pc = "returned" /\ outcome = "Exited" /\ returned = exit_str
        /\ ~validated
  /\ resolved_line /\ suggested(user_input) = vidmina =>
        /\ wrapper_pc = "returned" /\ outcome = "Cancelled" /\ returned = None
        /\ ~validated

\* C1 happens: a line the validation class would accept ('exit' as a name)
\* ended the call as Exited without being validated
ExitedOnAcceptableLine ==
  /\ outcome = "Exited"
  /\ validates(validation_class, user_input)
  /\ ~validated

\* C2, in states: every prompt shown is the original prompt, and each line
\* read before the current one was rejected with exactly one message, so a
\* call that accepts its line after k rejections has shown the prompt k+1
\* times, printed k messages and returns that last line.
RetryCounts ==
  /\ attempts > 0 => displayed = prompt
  /\ wrapper_pc = "input" => errors = attempts
  /\ wrapper_pc \in {"suggest", "validate", "returned"} => errors = attempts - 1
  /\ outcome = "Accepted" => returned = user_input

\* C2, in steps: a rejection prints one message and goes back to input(prompt)
\* with the prompt unchanged, and the next line read is prompted with it.
RetryStep ==
  /\ wrapper_pc = "validate" /\ ~validates(validation_class, user_input) =>
        wrapper_pc' = "input" /\ errors' = errors + 1 /\ prompt' = prompt
  /\ wrapper_pc = "input" /\ wrapper_pc' = "suggest" =>
        displayed' = prompt /\ attempts' = attempts + 1 /\ errors' = errors

\* C2: validation retry, k rejected lines then an accepted one give k+1
\* displays of the same prompt, k rejection messages and Accepted(last line).
ValidationRetry == []RetryCounts /\ [][RetryStep]_vars

\* C2 happens: the phone prompt rejected one line and then accepted
\* '1234567890'
OneRejectionThenAccepted ==
  /\ validation_class = "Phone"
  /\ outcome = "Accepted"
  /\ returned = typed_1234567890
  /\ errors = 1 /\ attempts = 2

\* C3: a call that returns Accepted returns the raw text of the last line
\* read; the validation class was called on that line and accepted it, and
\* the line resolves to neither 'вийти' nor 'відміна'.  What is validated is
\* the line, whatever command it resolves to: a validated line still being
\* the current one at input() is one the class rejects.
AcceptedIsRawLine ==
  /\ outcome = "Accepted" =>
        /\ returned = user_input
        /\ validated
        /\ validates(validation_class, user_input)
        /\ ~cancels(user_input)
  /\ validated /\ wrapper_pc = "input" => ~validates(validation_class, user_input)
  /\ validated /\ wrapper_pc = "returned" => validates(validation_class, user_input)

\* C3 happens: a line that resolves to a command of the catalog ('контакт',
\* which resolves to 'додати контакт') was validated and returned as typed
AcceptedUnmodified ==
  /\ outcome = "Accepted"
  /\ validated
  /\ returned = typed_kontakt
  /\ wrapper_command = "dodaty kontakt"

\* C4, in states: a call has returned only on a terminating line, every line
\* before it having been rejected.
ReturnsOnFirstTerminatingLine ==
  wrapper_pc = "returned" => terminating_line /\ errors = attempts - 1

\* C4, in steps: a line that does not terminate the call leads back to
\* input(prompt), however many lines were rejected before.
StaysInCycle ==
  (wrapper_pc \in {"suggest", "validate"} /\ ~terminating_line) =>
     wrapper_pc' \in {"validate", "input"} /\ outcome' = "running"

\* C4: no retry limit.  The call returns at the first line that resolves to
\* 'вийти'/'відміна' or is accepted, never earlier; while lines are rejected
\* it stays in the cycle; and once such a line is read the call returns.
NoRetryLimit ==
  /\ []ReturnsOnFirstTerminatingLine
  /\ [][StaysInCycle]_vars
  /\ ((wrapper_pc = "suggest" /\ terminating_line) ~> (wrapper_pc = "returned"))

\* C4 happens: the call returned on its last possible line, all the lines
\* before having been rejected
ReturnedAfterRejections ==
  /\ wrapper_pc = "returned"
  /\ errors >= 2
  /\ terminating_line

\* C5, in states: a call that has returned has exactly one of the three
\* outcomes, with the value that goes with it.
ThreeOutcomes ==
  /\ wrapper_pc = "returned" <=> outcome \in {"Accepted", "Cancelled", "Exited"}
  /\ outcome = "Exited" => returned = exit_str
  /\ outcome = "Cancelled" => returned = None
  /\ outcome = "Accepted" => returned = user_input /\ ~exit_or_None(returned)
  /\ wrapper_pc # "returned" => outcome = "running"

\* C5, in steps: once the call returned Exited or Cancelled, it shows no
\* prompt and reads no line; what comes next is its caller's step.
NoPromptAfterReturn ==
  outcome \in {"Exited", "Cancelled"} =>
     \/ attempts' = attempts /\ displayed' = displayed /\ user_input' = user_input
     \/ attempts' = 0 /\ outcome' = "running"

\* C5: a completed call ends in exactly one of Accepted(value), Cancelled,
\* Exited, and after Exited or Cancelled no further prompt is shown and no
\* further line is read by that call.
OutcomeIsFinal == []ThreeOutcomes /\ [][NoPromptAfterReturn]_vars

\* C5 happens: a getter called by main returned Cancelled after a rejection
CancelledAfterPrompts ==
  /\ outcome = "Cancelled"
  /\ pc = "add_phone"
  /\ attempts = 2

(***************************************************************************)
(* Properties of the operations of main                                    *)
(***************************************************************************)
\* main is in the branch 'додати контакт', at one of its five getters
AddPlaces == {"add_name", "add_phone", "add_address", "add_email", "add_birthday"}

\* the outcomes of five calls that all returned Accepted
AllAccepted == <<"Accepted", "Accepted", "Accepted", "Accepted", "Accepted">>

\* C6, in states: while the five fields are being asked, the book is the
\* book of the moment the command was chosen.
NoPartialRecord == pc \in AddPlaces => book = book0

\* C6, in steps: the book changes only when all five calls returned
\* Accepted, and then by the record of the five values; a call returning
\* Exited or Cancelled sends main back to the command prompt with the book
\* it had when the command was chosen.
CommitOrDiscard ==
  pc \in AddPlaces =>
    /\ book' # book =>
         /\ outcomes = AllAccepted
         /\ book' = add_record(book0, new_record(name, phone, address, email, returned))
    /\ (wrapper_pc = "returned" /\ outcome \in {"Exited", "Cancelled"}) =>
         book' = book0 /\ pc' = "command"

\* C6: no partial commit in 'додати контакт'.  A record is added only if the
\* five getters all returned Accepted; if one returns Exited or Cancelled the
\* book is left as it was before the operation.
NoPartialCommit == []NoPartialRecord /\ [][CommitOrDiscard]_vars

\* C6 happens: name, phone and address were accepted and the email prompt
\* was cancelled, with a contact already in the book
CancelledAfterAcceptedFields ==
  /\ pc = "add_email"
  /\ wrapper_pc = "returned"
  /\ outcome = "Cancelled"
  /\ outcomes = <<"Accepted", "Accepted", "Accepted", "Cancelled">>
  /\ name # None /\ phone # None /\ address # None
  /\ book # empty

\* C7: in 'додати контакт' and in the phone branch of 'редагувати контакт',
\* once a getter has returned Exited or Cancelled no further getter of the
\* operation is called: a guarded prompt is in progress only if every call
\* made for the command so far returned Accepted.
AbandonedOnControl ==
  wrapper_pc \in {"input", "suggest", "validate"} =>
    \A i \in 1..Len(outcomes) : outcomes[i] = "Accepted"

\* C10: a line typed at a prompt of the current command that resolves to
\* 'вийти' or 'відміна' leaves the address book and the notebook as they
\* were when the command was chosen.
ControlLineModifiesNothing ==
  control_typed => book = book0 /\ notebook = notebook0

(***************************************************************************)
(* Properties of suggest_command                                           *)
(***************************************************************************)
\* the similarity of line 314 for every visited keyword: the pairs
\* <<n, similar(user_input.lower(), keyword_n.lower())>>
similarities(typed_text) ==
  { <<n, similar(lower(typed_text), lower(visited[n].keyword))>> :
      n \in 1..Len(visited) }

\* the pairs of s with the highest similarity
highest(s) == { p \in s : \A q \in s : ge(p[2], q[2]) }

\* C8: suggest_command returns None exactly when every keyword of the
\* catalog is less than 0.3 similar to the lower-cased text, and otherwise
\* returns a command one of whose keywords has the highest similarity of the
\* whole catalog; a best match below 0.3 is never returned.
ThresholdRespected ==
  pc = "resolved" =>
    LET s == similarities(user_input)
    IN  /\ command = NoCommand <=> \A p \in s : ~ge(p[2], threshold)
        /\ command # NoCommand =>
             \E p \in highest(s) :
               visited[p[1]].command = command /\ ge(p[2], threshold)

\* C8 happens: the best keyword has some similarity to the text, but less
\* than 0.3, and None was returned
BestOfBadLotUnreported ==
  /\ pc = "resolved"
  /\ command = NoCommand
  /\ \E p \in similarities(user_input) :
       gt(p[2], [num |-> 0, den |-> 1]) /\ ~ge(p[2], threshold)

\* the first visited keyword among those with the highest similarity
first_highest(s) ==
  CHOOSE p \in highest(s) : \A q \in highest(s) : p[1] <= q[1]

\* C9: when several keywords have the same highest similarity, at or above
\* 0.3, suggest_command returns the command of the first of them in the order
\* of the two loops (commands in catalog order, keywords in list order); in
\* particular 'видалити запис' and 'стерти запис', which are keywords of both
\* 'видалити контакт' and 'видалити нотатку', resolve to 'видалити контакт'.
FirstHighestWins ==
  pc = "resolved" =>
    LET s == similarities(user_input)
    IN  /\ command # NoCommand => command = visited[first_highest(s)[1]].command
        /\ user_input \in {typed_vydalyty_zapys, typed_sterty_zapys} =>
             command = "vydalyty kontakt"

\* C9 happens: 'видалити запис' was resolved, two keywords of different
\* commands having the highest similarity
TieResolvedToEarlier ==
  /\ pc = "resolved"
  /\ user_input = typed_vydalyty_zapys
  /\ command = "vydalyty kontakt"
  /\ \E p, q \in highest(similarities(user_input)) :
       /\ p[1] < q[1]
       /\ visited[p[1]].command = "vydalyty kontakt"
       /\ visited[q[1]].command = "vydalyty notatku"

(***************************************************************************)
(* Properties of similar, as suggest_command calls it                      *)
(***************************************************************************)
\* the similarity of line 314 with the arguments of similar exchanged
exchanged(typed_text) ==
  { <<n, similar(lower(visited[n].keyword), lower(typed_text))>> :
      n \in 1..Len(visited) }

\* C11: similar is symmetric, similar(a, b) = similar(b, a): for the text and
\* every keyword the ratio is the same with the two arguments exchanged.
SimilarIsSymmetric ==
  pc = "resolved" => similarities(user_input) = exchanged(user_input)

\* 1.0 and 0.0 as ratios
one == [num |-> 1, den |-> 1]
zero == [num |-> 0, den |-> 1]

\* two ratios are equal
same_ratio(r, s) == ge(r, s) /\ ge(s, r)

\* C12: similar(a, a) = 1.0 for a non-empty a, similar('', '') = 1.0 and every
\* ratio lies in [0.0, 1.0]; so a text that is a keyword of the catalog never
\* resolves to None.
RatioBounds ==
  pc = "resolved" =>
    /\ same_ratio(similar(user_input, user_input), one)
    /\ same_ratio(similar(lower(user_input), lower(user_input)), one)
    /\ \A p \in similarities(user_input) : ge(p[2], zero) /\ ge(one, p[2])
    /\ \A p \in exchanged(user_input) : ge(p[2], zero) /\ ge(one, p[2])
    /\ user_input \in catalog_keywords => command # NoCommand

\* C12 happens: a keyword of the catalog that is not a command's name was
\* resolved
KeywordResolved ==
  /\ pc = "resolved"
  /\ user_input \in catalog_keywords \ command_phrases
  /\ command # NoCommand

\* C13: both arguments are lower-cased before similar is called, so the text
\* resolves as its lower-cased form does, and two texts that differ only in
\* the case of their letters resolve to the same command.
CaseInsensitive ==
  pc = "resolved" =>
    /\ command = suggest_command(lower(user_input))
    /\ \A t \in Texts : lower(t) = lower(user_input) => suggest_command(t) = command

\* C13 happens: a text with capitals resolved to the command its lower-cased
\* form resolves to
CapitalsResolved ==
  /\ pc = "resolved"
  /\ lower(user_input) # user_input
  /\ lower(user_input) \in catalog_keywords
  /\ command \in {vyity, vidmina}

(***************************************************************************)
(* Properties of the session loop                                          *)
(***************************************************************************)
\* no save_data has been called: neither file has been written
nothing_saved == files = [addressbook_pkl |-> {}, notebook_pkl |-> {}]

\* the last line read at the command prompt resolved to no command
unrecognised == main_user_input # None /\ suggested(main_user_input) = NoCommand

\* C15, in states: after a line for which suggest_command returned None, main
\* is back at the command prompt with the book and the notebook it had when
\* the line was typed, no prompt of a getter open and no file written.
BackAtCommandPrompt ==
  unrecognised =>
    /\ pc = "command"
    /\ book = book0 /\ notebook = notebook0
    /\ wrapper_pc = "idle"
    /\ nothing_saved

\* C15, in steps: reading such a line changes neither the book, nor the
\* notebook, nor the files, and leaves main at the command prompt.
UnrecognisedStep ==
  (pc = "command" /\ suggested(main_user_input') = NoCommand) =>
     /\ book' = book /\ notebook' = notebook /\ files' = files
     /\ pc' = "command"

\* C15: at the command prompt a line for which the resolver returns none is
\* not an error; book and notebook are unchanged, nothing is saved and the
\* session returns to the command prompt for the next line.
UnrecognisedIsNoError == []BackAtCommandPrompt /\ [][UnrecognisedStep]_vars

\* C15 happens: an unrecognised line was typed with a contact and a note stored
UnrecognisedWithData ==
  /\ unrecognised
  /\ pc = "command"
  /\ book # empty /\ notebook # empty

\* a call made for the current command has returned Exited or Cancelled
control_returned ==
  \E i \in DOMAIN outcomes : outcomes[i] \in {"Exited", "Cancelled"}

\* C16, in states: the loop has ended only on a line typed at the command
\* prompt that resolves to 'вийти', with both files written from the book and
\* the notebook as they are; before that no file is written.
EndsOnExitCommand ==
  /\ pc = "finished" =>
        /\ main_user_input # None /\ suggested(main_user_input) = vyity
        /\ files = [addressbook_pkl |-> {book}, notebook_pkl |-> {notebook}]
        /\ ~control_returned
  /\ pc # "finished" => nothing_saved

\* C16, in steps: the loop ends and the files are written only in a step
\* taken at the command prompt; once a getter has returned Exited or
\* Cancelled the command neither ends the loop, nor saves, nor commits
\* anything: main goes back to the command prompt (in the branch that edits
\* a phone, after the second get_phone of lines 451-453 has returned too).
FieldControlStep ==
  /\ (pc' = "finished" /\ pc # "finished") => pc = "command"
  /\ files' # files => (pc = "command" /\ pc' = "finished")
  /\ control_returned =>
        /\ pc' # "finished"
        /\ files' = files /\ book' = book /\ notebook' = notebook
        /\ pc' \in {"command", "edit_new_phone"}
  /\ (control_returned /\ pc # "edit_old_phone" /\ pc' # pc) => pc' = "command"

OutcomesDistinguishable ==
  /\ wrapper_pc = "returned" =>
        /\ returned = exit_str <=> outcome = "Exited"
        /\ returned = None <=> outcome = "Cancelled"
        /\ exit_or_None(returned) <=> outcome \in {"Exited", "Cancelled"}
        /\ ~exit_or_None(returned) <=> outcome = "Accepted"
  /\ outcome = "Accepted" => returned \notin exit_in_any_case \cup {None}
  /\ (resolved_line /\ user_input \in exit_in_any_case) =>
        /\ wrapper_command = vyity
        /\ outcome = "Exited" /\ returned = exit_str
        /\ ~validated

\* C17 happens: at the name prompt, where every spelling of 'exit' is a valid
\* name, a line spelling it with capitals ended the call with 'exit' returned
CapitalExitReturnsExit ==
  /\ validation_class = "Name"
  /\ wrapper_pc = "returned"
  /\ user_input \in exit_in_any_case \ {exit_str}
  /\ returned = exit_str

(***************************************************************************)
(* Properties of the address book and the notebook                         *)
(***************************************************************************)
\* C18: every entry of the address book is stored under the current name of
\* its record (key == record.name.value), so that find(name) and
\* delete(name) locate a contact by the name it displays, also after
\* edit-contact has changed a name.
KeyIsCurrentName == \A key \in DOMAIN book : book[key].name = key

\* C19, in steps: the step that reads the new text of a note either leaves
\* the notebook as it is (the text was compared equal to 'exit') or leaves
\* the edited note stored under the new text, with as many notes as before
\* unless the new text was the key of another note.
EditTextStep ==
  pc = "editnote_new_text" =>
    \E new_text \in typed_notes :
      \/ exit_or_None(new_text) /\ notebook' = notebook
      \/ /\ ~exit_or_None(new_text)
         /\ new_text \in DOMAIN notebook'
         /\ notebook'[new_text] = [notebook[text] EXCEPT !.text = new_text]
         /\ new_text \notin DOMAIN notebook \ {text} =>
              Cardinality(DOMAIN notebook') = Cardinality(DOMAIN notebook)

\* C19: editing a note's text never loses the note; whatever the new text,
\* also one equal to the old text, the notebook then holds the note under
\* the new text and the number of notes is unchanged unless the new text was
\* already the key of a different note.
EditTextNeverLosesNote == [][EditTextStep]_vars

\* C20: every stored record has a name of at least 2 characters, at least
\* one phone, every phone being exactly 10 digits, and an address, an email
\* and a birthday that are present and accepted by their validators; no
\* field class has raised while a record was built or edited.
RecordsComplete ==
  /\ pc # "raised"
  /\ \A key \in DOMAIN book :
       LET r == book[key] IN
         /\ r.name # None /\ Len(r.name) >= 2
         /\ Len(r.phones) >= 1
         /\ \A n \in 1..Len(r.phones) :
              /\ r.phones[n] # None
              /\ Len(r.phones[n]) = 10
              /\ \A i \in 1..10 : r.phones[n][i] \in 48..57
         /\ r.address # None /\ Len(r.address) >= 5
         /\ r.email # None /\ r.email # <<>> /\ Email(r.email)
         /\ r.birthday # None

\* C20 happens: two records are stored, one of them renamed by edit-contact
\* and one with its phone replaced
RecordsAfterEdits ==
  /\ \E key \in DOMAIN book : book[key].name # key
  /\ \E key \in DOMAIN book : book[key].phones = <<typed_0987654321>>
  /\ Cardinality(DOMAIN book) >= 2

====
